---- MODULE Spec2Model ----
(***************************************************************************)
(* Model of the GarminStats facade (src/src/garmin_stats/__init__.py): one *)
(* instance with its three payload slots, the single shared cache date,    *)
(* the instance date and the memoized client.  The remote service          *)
(* (garminconnect.Garmin) and the process environment are inputs of the    *)
(* operations.                                                             *)
(***************************************************************************)
EXTENDS Integers, Sequences, FiniteSets, TLC

\* ---------------------------------------------------------------- bounds --
MaxHandshakes == 2

\* ---------------------------------------------------------------- values --
Dates == {"2024-01-01", "2024-01-02"}

\* Python's None where a string is expected (date arguments, _cache_date,
\* os.getenv results).
NoneStr == "None"

\* Date arguments a caller can pass to get_* / refresh_data: a date or None
\* (the default).
DateArgs == Dates \cup {NoneStr}

Kinds == {"stats", "sleep", "steps"}

\* Python's None as a payload / empty slot.
NONE == [kind |-> "-", date |-> "-", body |-> "None"]

\* Bodies the remote service can answer with: no value at all (None), an
\* empty document ({}), a non-empty document.
Bodies == {"None", "empty", "doc"}

\* Outcomes of one remote data call.
Responses == Bodies \cup {"raise"}

\* The document the remote service returns for a request of kind k for date
\* d; None carries nothing.
Document(k, d, body) ==
    IF body = "None" THEN NONE ELSE [kind |-> k, date |-> d, body |-> body]

\* The memoized client: 0 while cached_property has stored nothing, else the
\* identity of the Garmin object (the number of the successful handshake
\* that made it).
NoSession == 0

\* What os.getenv can return for a credential variable.
EnvValues == {NoneStr, "", "set"}

\* Inputs of one session acquisition: the two credentials, the outcome of
\* login() and the outcome of garth.dump().
\* login() is reached only with both credentials, dump() only after a
\* successful login(); an outcome that is never reached is fixed to "ok".
AcqInputs ==
    {a \in [email : EnvValues, password : EnvValues,
            login : {"ok", "raise"}, dump : {"ok", "raise"}] :
        /\ (a.email \in {NoneStr, ""} \/ a.password \in {NoneStr, ""})
              => (a.login = "ok" /\ a.dump = "ok")
        /\ a.login = "raise" => a.dump = "ok"}

\* Python truthiness of an optional string / of a payload.
FalsyStr(s) == s = NoneStr \/ s = ""
FalsyPayload(p) == p.body \in {"None", "empty"}

\* `a or b` on optional strings.
OrStr(a, b) == IF FalsyStr(a) THEN b ELSE a

\* ----------------------------------------------------------------- state --
VARIABLES
    date_str,      \* self.date_str
    stats_cache,   \* self._stats_cache
    sleep_cache,   \* self._sleep_cache
    steps_cache,   \* self._steps_cache
    cache_date,    \* self._cache_date
    client,        \* the value cached_property stored for self.client
    handshakes,    \* number of login() calls that succeeded so far
    last           \* the last operation: its arguments, remote calls and result

vars == <<date_str, stats_cache, sleep_cache, steps_cache, cache_date,
          client, handshakes, last>>

\* GarminStats.cache_info of an instance (or running state) r.
cache_info(r) ==
    [cache_date |-> r.cache_date,
     has_stats_cache |-> r.stats_cache # NONE,
     has_sleep_cache |-> r.sleep_cache # NONE,
     has_steps_cache |-> r.steps_cache # NONE,
     instance_date |-> r.date_str]

\* No cache_info recorded.
NoInfo ==
    [cache_date |-> NoneStr, has_stats_cache |-> FALSE,
     has_sleep_cache |-> FALSE, has_steps_cache |-> FALSE,
     instance_date |-> NoneStr]

\* The instance as it is now.
Self ==
    [date_str |-> date_str, stats_cache |-> stats_cache,
     sleep_cache |-> sleep_cache, steps_cache |-> steps_cache,
     cache_date |-> cache_date, client |-> client]

\* The running state of one operation: the instance's fields, the remote
\* calls made so far (fetches: the data calls, logins: the handshakes,
\* raised: a data call raised), the result (ret, err; err = "" is a normal
\* return) and what cache_info reported when the operation called
\* clear_cache (cleared; NoInfo when it did not).  nocreds records the
\* environment the operation ran in: a credential it read was missing.
\* health is the body status a health check answered with ("" for every
\* other operation).
\* status is the HTTP status an endpoint dependency ended with ("" when it
\* returned its data, and for the operations of the facade itself).
Begin ==
    [date_str |-> date_str, stats_cache |-> stats_cache,
     sleep_cache |-> sleep_cache, steps_cache |-> steps_cache,
     cache_date |-> cache_date, client |-> client,
     handshakes |-> handshakes,
     fetches |-> <<>>, logins |-> 0, raised |-> FALSE, nocreds |-> FALSE,
     hit |-> FALSE, target |-> NoneStr,
     ret |-> NONE, err |-> "", cleared |-> NoInfo, status |-> "",
     health |-> ""]

\* ------------------------------------------------------------ operations --
\* GarminStats.client (cached_property): the stored client if there is one,
\* else credentials check, login, dump, and the new client is stored only
\* when the getter returns.
\* client as it would be if only the account identifier were checked.
Client_checks_email_only(r, acq) ==
    IF r.client # NoSession THEN r
    ELSE IF FalsyStr(acq.email)
         THEN [r EXCEPT !.err = "config"]
    ELSE IF acq.login = "raise"
         THEN [r EXCEPT !.err = "auth", !.logins = @ + 1]
    ELSE IF acq.dump = "raise"
         THEN [r EXCEPT !.err = "dump", !.logins = @ + 1, !.handshakes = @ + 1]
    ELSE [r EXCEPT !.client = r.handshakes + 1,
                   !.logins = @ + 1, !.handshakes = @ + 1]

\* client as it would be if a failed login() were tried a second time.
Client_retries_login(r, acq) ==
    IF r.client # NoSession THEN r
    ELSE IF FalsyStr(acq.email) \/ FalsyStr(acq.password)
         THEN [r EXCEPT !.err = "config"]
    ELSE IF acq.login = "raise"
         THEN [r EXCEPT !.err = "auth", !.logins = @ + 2]
    ELSE IF acq.dump = "raise"
         THEN [r EXCEPT !.err = "dump", !.logins = @ + 1, !.handshakes = @ + 1]
    ELSE [r EXCEPT !.client = r.handshakes + 1,
                   !.logins = @ + 1, !.handshakes = @ + 1]

\* client as it would be if the new client were stored on the instance
\* before the session token is dumped.
Client_stores_before_dump(r, acq) ==
    IF r.client # NoSession THEN r
    ELSE IF FalsyStr(acq.email) \/ FalsyStr(acq.password)
         THEN [r EXCEPT !.err = "config"]
    ELSE IF acq.login = "raise"
         THEN [r EXCEPT !.err = "auth", !.logins = @ + 1]
    ELSE IF acq.dump = "raise"
         THEN [r EXCEPT !.err = "dump", !.logins = @ + 1, !.handshakes = @ + 1,
                        !.client = r.handshakes + 1]
    ELSE [r EXCEPT !.client = r.handshakes + 1,
                   !.logins = @ + 1, !.handshakes = @ + 1]

Client(r, acq) ==
    IF r.client # NoSession THEN r
    ELSE IF FalsyStr(acq.email) \/ FalsyStr(acq.password)
         THEN [r EXCEPT !.err = "config"]
    ELSE IF acq.login = "raise"
         THEN [r EXCEPT !.err = "auth", !.logins = @ + 1]
    ELSE IF acq.dump = "raise"
         THEN [r EXCEPT !.err = "dump", !.logins = @ + 1, !.handshakes = @ + 1]
    ELSE [r EXCEPT !.client = r.handshakes + 1,
                   !.logins = @ + 1, !.handshakes = @ + 1]

_is_cache_valid(r, target_date) ==
    r.cache_date = target_date /\ r.stats_cache # NONE

_is_sleep_cache_valid(r, target_date) ==
    r.cache_date = target_date /\ r.sleep_cache # NONE

_is_steps_cache_valid(r, target_date) ==
    r.cache_date = target_date /\ r.steps_cache # NONE

\* The remote call self.client.get_<kind>(target_date) of a cache miss:
\* the client is obtained first, then the call is made; resp is its outcome.
RemoteFetch(r, kind, target_date, acq, resp) ==
    LET c == Client(r, acq) IN
    IF c.err # "" THEN c
    ELSE LET f == [c EXCEPT !.fetches = Append(@, <<kind, target_date>>)] IN
         IF resp = "raise" THEN [f EXCEPT !.err = "fetch", !.raised = TRUE]
         ELSE [f EXCEPT !.ret = Document(kind, target_date, resp)]

\* get_stats as it would be with the date stamp written before the remote
\* call instead of after it.
get_stats_stamps_first(r, date_arg, acq, resp) ==
    LET target_date == OrStr(date_arg, r.date_str)
        t == [r EXCEPT !.target = target_date, !.hit = FALSE, !.ret = NONE]
    IN  IF _is_cache_valid(r, target_date)
        THEN [t EXCEPT !.hit = TRUE, !.ret = r.stats_cache]
        ELSE LET f == RemoteFetch([t EXCEPT !.cache_date = target_date],
                                  "stats", target_date, acq, resp) IN
             IF f.err # "" THEN f
             ELSE [f EXCEPT !.stats_cache = f.ret]

get_stats(r, date_arg, acq, resp) ==
    LET target_date == OrStr(date_arg, r.date_str)
        t == [r EXCEPT !.target = target_date, !.hit = FALSE, !.ret = NONE]
    IN  IF _is_cache_valid(r, target_date)
        THEN [t EXCEPT !.hit = TRUE, !.ret = r.stats_cache]
        ELSE LET f == RemoteFetch(t, "stats", target_date, acq, resp) IN
             IF f.err # "" THEN f
             ELSE [f EXCEPT !.stats_cache = f.ret, !.cache_date = target_date]

get_steps_data(r, date_arg, acq, resp) ==
    LET target_date == OrStr(date_arg, r.date_str)
        t == [r EXCEPT !.target = target_date, !.hit = FALSE, !.ret = NONE]
    IN  IF _is_steps_cache_valid(r, target_date)
        THEN [t EXCEPT !.hit = TRUE, !.ret = r.steps_cache]
        ELSE LET f == RemoteFetch(t, "steps", target_date, acq, resp) IN
             IF f.err # "" THEN f
             ELSE [f EXCEPT !.steps_cache = f.ret, !.cache_date = target_date]

get_sleep_data(r, date_arg, acq, resp) ==
    LET target_date == OrStr(date_arg, r.date_str)
        t == [r EXCEPT !.target = target_date, !.hit = FALSE, !.ret = NONE]
    IN  IF _is_sleep_cache_valid(r, target_date)
        THEN [t EXCEPT !.hit = TRUE, !.ret = r.sleep_cache]
        ELSE LET f == RemoteFetch(t, "sleep", target_date, acq, resp) IN
             IF f.err # "" THEN f
             ELSE [f EXCEPT !.sleep_cache = f.ret, !.cache_date = target_date]

\* clear_cache as it would be if it forgot the sleep slot.
clear_cache_keeps_sleep(r) ==
    [r EXCEPT !.stats_cache = NONE, !.steps_cache = NONE,
              !.cache_date = NoneStr, !.cleared = cache_info(r)]

\* clear_cache as it would be if it also dropped the stored client.
clear_cache_drops_client(r) ==
    [r EXCEPT !.stats_cache = NONE, !.sleep_cache = NONE,
              !.steps_cache = NONE, !.cache_date = NoneStr,
              !.client = NoSession, !.cleared = cache_info(r)]

clear_cache(r) ==
    [r EXCEPT !.stats_cache = NONE, !.sleep_cache = NONE,
              !.steps_cache = NONE, !.cache_date = NoneStr,
              !.cleared = cache_info(r)]

\* update_date as it would be without the call of clear_cache.
update_date_keeps_cache(r, new_date) ==
    [r EXCEPT !.date_str = new_date]

\* update_date as it would be if it touched self.client (an eager login).
update_date_logs_in(r, new_date) ==
    clear_cache(
        Client([r EXCEPT !.date_str = new_date],
               [email |-> "set", password |-> "set",
                login |-> "ok", dump |-> "ok"]))

update_date(r, new_date) ==
    clear_cache([r EXCEPT !.date_str = new_date])

\* refresh_data as it would be without the call of get_steps_data.
refresh_data_skips_steps(r, date_arg, acq, resps) ==
    LET target_date == OrStr(date_arg, r.date_str)
        c  == clear_cache(r)
        s1 == get_stats(c, target_date, acq, resps[1])
        s2 == IF s1.err # "" THEN s1
              ELSE get_sleep_data(s1, target_date, acq, resps[2])
    IN  [s2 EXCEPT !.target = target_date, !.hit = FALSE, !.ret = NONE]

\* refresh_data: clear, then the three getters in order; the first error
\* ends the operation.  resps are the outcomes of the three remote calls.
refresh_data(r, date_arg, acq, resps) ==
    LET target_date == OrStr(date_arg, r.date_str)
        c  == clear_cache(r)
        s1 == get_stats(c, target_date, acq, resps[1])
        s2 == IF s1.err # "" THEN s1
              ELSE get_sleep_data(s1, target_date, acq, resps[2])
        s3 == IF s2.err # "" THEN s2
              ELSE get_steps_data(s2, target_date, acq, resps[3])
    IN  [s3 EXCEPT !.target = target_date, !.hit = FALSE, !.ret = NONE]

\* ---------------------------------------------------------------- actions --
\* The record kept of the last operation.
LastOf(op, arg, r) ==
    [op |-> op, arg |-> arg, target |-> r.target, hit |-> r.hit,
     ret |-> r.ret, err |-> r.err, fetches |-> r.fetches,
     logins |-> r.logins, raised |-> r.raised, cleared |-> r.cleared,
     nocreds |-> r.nocreds, status |-> r.status,
     health |-> r.health]

\* The instance after an operation that ended in running state r.
Commit(op, arg, r) ==
    /\ r.handshakes <= MaxHandshakes
    /\ date_str' = r.date_str
    /\ stats_cache' = r.stats_cache
    /\ sleep_cache' = r.sleep_cache
    /\ steps_cache' = r.steps_cache
    /\ cache_date' = r.cache_date
    /\ client' = r.client
    /\ handshakes' = r.handshakes
    /\ last' = LastOf(op, arg, r)

\* The acquisition that needs no input: a client is already stored.
NoAcq == [email |-> "set", password |-> "set", login |-> "ok", dump |-> "ok"]

AcqFails(acq) ==
    FalsyStr(acq.email) \/ FalsyStr(acq.password)
        \/ acq.login = "raise" \/ acq.dump = "raise"

\* The running state of an operation that reads the environment acq.
BeginIn(acq) ==
    [Begin EXCEPT !.nocreds = FalsyStr(acq.email) \/ FalsyStr(acq.password)]

\* The inputs one getter call for target date d can consume: none on a
\* cache hit; on a miss the acquisition inputs (while no client is stored)
\* and the outcome of the remote call (when the acquisition succeeds).
GetInputs(valid) ==
    IF valid THEN {<<NoAcq, "raise">>}
    ELSE {in \in (IF client = NoSession THEN AcqInputs ELSE {NoAcq})
                    \X Responses :
             AcqFails(in[1]) => in[2] = "raise"}

GetStats ==
    \E d \in DateArgs :
      \E in \in GetInputs(_is_cache_valid(Begin, OrStr(d, date_str))) :
        \E r \in {get_stats(BeginIn(in[1]), d, in[1], in[2])} :
          Commit("get_stats", d, r)

GetSleepData ==
    \E d \in DateArgs :
      \E in \in GetInputs(_is_sleep_cache_valid(Begin, OrStr(d, date_str))) :
        \E r \in {get_sleep_data(BeginIn(in[1]), d, in[1], in[2])} :
          Commit("get_sleep_data", d, r)

GetStepsData ==
    \E d \in DateArgs :
      \E in \in GetInputs(_is_steps_cache_valid(Begin, OrStr(d, date_str))) :
        \E r \in {get_steps_data(BeginIn(in[1]), d, in[1], in[2])} :
          Commit("get_steps_data", d, r)

ClearCache ==
    Commit("clear_cache", NoneStr, clear_cache(Begin))

UpdateDate ==
    \E d \in Dates : Commit("update_date", d, update_date(Begin, d))

\* Outcomes of the three remote calls of refresh_data: a call after the
\* first one that raises is never made, its outcome is fixed to "raise".
RefreshResponses ==
    {q \in [1..3 -> Responses] :
        /\ q[1] = "raise" => q[2] = "raise"
        /\ q[2] = "raise" => q[3] = "raise"}

RefreshData ==
    \E d \in DateArgs,
       acq \in (IF client = NoSession THEN AcqInputs ELSE {NoAcq}),
       resps \in RefreshResponses :
        /\ AcqFails(acq) => resps[1] = "raise"
        /\ \E r \in {refresh_data(BeginIn(acq), d, acq, resps)} :
              Commit("refresh_data", d, r)

\* A read of the attribute `client` from outside the getters: the cached
\* value when there is one, else the acquisition, which reads the
\* environment, logs in and dumps the token.
ReadClient ==
    \E acq \in (IF client = NoSession THEN AcqInputs ELSE {NoAcq}) :
      \E r \in {Client(BeginIn(acq), acq)} :
        Commit("client", NoneStr, r)

CacheInfo ==
    /\ last' = [LastOf("cache_info", NoneStr, Begin) EXCEPT
                    !.target = cache_info(Begin).cache_date]
    /\ UNCHANGED <<date_str, stats_cache, sleep_cache, steps_cache,
                   cache_date, client, handshakes>>

\* GarminStats.__init__: the date given or today, empty slots, no client.
Init ==
    /\ date_str \in Dates
    /\ stats_cache = NONE
    /\ sleep_cache = NONE
    /\ steps_cache = NONE
    /\ cache_date = NoneStr
    /\ client = NoSession
    /\ handshakes = 0
    /\ last = [op |-> "__init__", arg |-> date_str, target |-> NoneStr,
               hit |-> FALSE, ret |-> NONE, err |-> "", fetches |-> <<>>,
               logins |-> 0, raised |-> FALSE, cleared |-> NoInfo,
               nocreds |-> FALSE, status |-> "",
               health |-> ""]

Next ==
    \/ GetStats
    \/ GetSleepData
    \/ GetStepsData
    \/ ClearCache
    \/ UpdateDate
    \/ RefreshData
    \/ ReadClient
    \/ CacheInfo

Spec == Init /\ [][Next]_vars

\* ------------------------------------------------- endpoint dependencies --
\* GarminStats(date_str) called while the process is in running state r: a
\* new instance with the date given or today, empty slots and no client.
GarminStats(r, date_arg, today) ==
    [r EXCEPT !.date_str = OrStr(date_arg, today),
              !.stats_cache = NONE, !.sleep_cache = NONE,
              !.steps_cache = NONE, !.cache_date = NoneStr,
              !.client = NoSession]

\* `except Exception` of the dependencies: whatever was raised inside the
\* try block, an HTTPException included, becomes a 503.
ExceptException(r) ==
    IF r.err # "" THEN [r EXCEPT !.status = "503"] ELSE r

\* `if not data: raise HTTPException(status_code=503, ...)`.
RaiseIfNoData(r) ==
    IF r.err = "" /\ FalsyPayload(r.ret)
    THEN [r EXCEPT !.err = "empty", !.status = "503"]
    ELSE r

\* get_activity_data_dependency as it would be without the `if not
\* activity_data` check.
get_activity_data_dependency_unchecked(r, today, acq, resp) ==
    ExceptException(
        get_stats(GarminStats(r, NoneStr, today), NoneStr, acq, resp))

get_activity_data_dependency(r, today, acq, resp) ==
    ExceptException(RaiseIfNoData(
        get_stats(GarminStats(r, NoneStr, today), NoneStr, acq, resp)))

get_sleep_data_dependency(r, today, acq, resp) ==
    ExceptException(RaiseIfNoData(
        get_sleep_data(GarminStats(r, NoneStr, today), NoneStr, acq, resp)))

\* The data types get_garmin_data_dependency is built for: the two it
\* knows and another one.
DataTypes == {"sleep", "activity", "other"}

get_garmin_data_dependency(r, data_type, today, acq, resp) ==
    LET garmin == GarminStats(r, NoneStr, today)
        data == CASE data_type = "sleep" ->
                        get_sleep_data(garmin, NoneStr, acq, resp)
                  [] data_type = "activity" ->
                        get_stats(garmin, NoneStr, acq, resp)
                  [] OTHER ->
                        [garmin EXCEPT !.err = "invalid", !.status = "400"]
    IN  ExceptException(RaiseIfNoData(data))

\* The answer of a health check: the try block returns "healthy" when the
\* getter gave a truthy payload and "unhealthy" when it gave a falsy one;
\* `except Exception` returns "unhealthy" too. Nothing is raised, so the
\* response is a 200 in every case.
HealthAnswer(r) ==
    [r EXCEPT !.status = "200",
              !.health = IF r.err # "" THEN "unhealthy"
                         ELSE IF FalsyPayload(r.ret) THEN "unhealthy"
                         ELSE "healthy"]

activity_health_check(r, today, acq, resp) ==
    HealthAnswer(
        get_stats(GarminStats(r, NoneStr, today), NoneStr, acq, resp))

sleep_health_check(r, today, acq, resp) ==
    HealthAnswer(
        get_sleep_data(GarminStats(r, NoneStr, today), NoneStr, acq, resp))

\* The inputs one dependency call consumes: its new instance has no client,
\* so the acquisition inputs and, when the acquisition succeeds, the outcome
\* of the remote call.
DepInputs ==
    {in \in AcqInputs \X Responses : AcqFails(in[1]) => in[2] = "raise"}

\* One request served by an activity endpoint.
ActivityRequest ==
    \E today \in Dates, in \in DepInputs :
      \E r \in {get_activity_data_dependency(BeginIn(in[1]), today,
                                             in[1], in[2])} :
        Commit("get_activity_data_dependency", NoneStr, r)

\* One request served by a sleep endpoint.
SleepRequest ==
    \E today \in Dates, in \in DepInputs :
      \E r \in {get_sleep_data_dependency(BeginIn(in[1]), today,
                                          in[1], in[2])} :
        Commit("get_sleep_data_dependency", NoneStr, r)

\* One request served through a dependency made by
\* get_garmin_data_dependency(data_type); an unknown data type reads nothing.
GarminDataRequest ==
    \E data_type \in DataTypes, today \in Dates,
       in \in DepInputs :
      /\ data_type = "other" => in = <<NoAcq, "raise">>
      /\ \E r \in {get_garmin_data_dependency(BeginIn(in[1]), data_type,
                                              today, in[1], in[2])} :
            Commit("get_garmin_data_dependency", data_type, r)

\* GET /insights/activity/health.
ActivityHealthCheck ==
    \E today \in Dates, in \in DepInputs :
      \E r \in {activity_health_check(BeginIn(in[1]), today,
                                      in[1], in[2])} :
        Commit("activity_health_check", NoneStr, r)

\* GET /insights/sleep/health.
SleepHealthCheck ==
    \E today \in Dates, in \in DepInputs :
      \E r \in {sleep_health_check(BeginIn(in[1]), today,
                                   in[1], in[2])} :
        Commit("sleep_health_check", NoneStr, r)

\* The process serving requests: every request builds its own instance, the
\* instance variables hold the instance of the last request, handshakes
\* counts over the whole process.
ProcNext ==
    \/ ActivityRequest
    \/ SleepRequest
    \/ GarminDataRequest
    \/ ActivityHealthCheck
    \/ SleepHealthCheck

ProcSpec == Init /\ [][ProcNext]_vars

TypeOK ==
    /\ date_str \in Dates
    /\ cache_date \in Dates \cup {NoneStr}
    /\ client \in 0..MaxHandshakes
    /\ handshakes \in 0..MaxHandshakes

\* ----------------------------------------------------------- vocabulary --
GetOps == {"get_stats", "get_sleep_data", "get_steps_data"}

KindOf(op) ==
    CASE op = "get_stats" -> "stats"
      [] op = "get_sleep_data" -> "sleep"
      [] OTHER -> "steps"

\* The slot of kind k, and whether a get of kind k for date d would be
\* served from the cache in the current state.
Slot(k) ==
    CASE k = "stats" -> stats_cache
      [] k = "sleep" -> sleep_cache
      [] OTHER -> steps_cache

ValidIn(r, k, d) ==
    CASE k = "stats" -> _is_cache_valid(r, d)
      [] k = "sleep" -> _is_sleep_cache_valid(r, d)
      [] OTHER -> _is_steps_cache_valid(r, d)

Valid(k, d) == ValidIn(Self, k, d)

\* Operation record l made the remote data call of kind k for date d.
Fetched(l, k, d) == \E i \in 1..Len(l.fetches) : l.fetches[i] = <<k, d>>

EmptyInfo(d) ==
    [cache_date |-> NoneStr, has_stats_cache |-> FALSE,
     has_sleep_cache |-> FALSE, has_steps_cache |-> FALSE,
     instance_date |-> d]

\* ---------------------------------------------------------------- claims --
\* C1: every payload returned by get_stats(D) / get_sleep_data(D) is a
\* document the remote service produced for that kind and that date D.
C1_PayloadIsForRequestedKey ==
    (last.op \in {"get_stats", "get_sleep_data"} /\ last.err = ""
        /\ last.ret # NONE)
    => (last.ret.kind = KindOf(last.op) /\ last.ret.date = last.target)

\* C2: of two consecutive successful get_* calls for the same (kind, date),
\* the second makes no remote call and returns the payload the first
\* returned, whatever payload that is; the first makes at most one call.
C2_Memoization ==
    [][(last.op \in GetOps /\ last.err = "" /\ last'.op = last.op
            /\ last'.target = last.target /\ last'.err = "")
       => (last'.fetches = <<>> /\ last'.ret = last.ret
            /\ Len(last.fetches) <= 1)]_vars

\* C3: the entry that serves a request for (kind, D) was fetched for D: two
\* dates never share an entry.
C3_IsolationByDate ==
    \A k \in Kinds, d \in Dates : Valid(k, d) => Slot(k).date = d

\* C4: a key (kind, D) of the stats or sleep kind becomes servable from the
\* cache only in an operation that made the remote call of that kind for D;
\* caching another kind for D never does it.
C4_IsolationByKind ==
    [][\A k \in {"stats", "sleep"}, d \in Dates :
          (~Valid(k, d) /\ Valid(k, d)') => Fetched(last', k, d)]_vars

\* C5: when the remote call inside get_stats / get_sleep_data raises, the
\* call ends with that error, the three slots, the cache date and the
\* instance date are as before, the key is not servable from the cache, and
\* an immediate retry for the key makes the remote call again.
C5_FailureNonCaching ==
    [][/\ (last'.op \in {"get_stats", "get_sleep_data"} /\ last'.raised)
          => /\ last'.err = "fetch"
             /\ UNCHANGED <<stats_cache, sleep_cache, steps_cache,
                            cache_date, date_str>>
             /\ ~ValidIn(Self', KindOf(last'.op), last'.target)
       /\ (last.op \in {"get_stats", "get_sleep_data"} /\ last.raised
            /\ last'.op = last.op /\ last'.target = last.target)
          => /\ ~last'.hit
             /\ last'.fetches = << <<KindOf(last.op), last.target>> >>]_vars

C5_Witness ==
    /\ last.op = "get_sleep_data" /\ last.raised /\ last.err = "fetch"
    /\ stats_cache # NONE /\ cache_date \in Dates
    /\ sleep_cache = NONE

\* C6: update_date(D2) sets the instance date to D2 and leaves cache_info
\* without any entry; the get_stats() without a date that follows is not
\* served from the cache and, the session being available, makes the remote
\* stats call for D2.
C6_UpdateDate ==
    [][/\ last'.op = "update_date"
          => /\ date_str' = last'.arg
             /\ cache_info(Self)' = EmptyInfo(last'.arg)
       /\ (last.op = "update_date" /\ last'.op = "get_stats"
            /\ last'.arg = NoneStr)
          => /\ last'.target = last.arg
             /\ ~last'.hit
             /\ last'.err \in {"", "fetch"}
                  => last'.fetches = << <<"stats", last.arg>> >>]_vars

C6_Witness ==
    /\ last.op = "update_date"
    /\ last.cleared.has_stats_cache /\ last.cleared.has_sleep_cache
    /\ last.cleared.cache_date \in Dates \ {last.arg}
    /\ date_str = last.arg
    /\ cache_info(Self) = EmptyInfo(last.arg)

\* C7: after clear_cache cache_info reports no entry and no cache date, no
\* key is servable from the cache, and the get_* that follows makes the
\* remote call for its key (the session being available).
C7_ClearCorrect ==
    [][/\ last'.op = "clear_cache"
          => /\ cache_info(Self)' = EmptyInfo(date_str)
             /\ \A k \in Kinds, d \in Dates : ~Valid(k, d)'
       /\ (last.op = "clear_cache" /\ last'.op \in GetOps)
          => /\ ~last'.hit
             /\ last'.err \in {"", "fetch"}
                  => last'.fetches
                        = << <<KindOf(last'.op), last'.target>> >>]_vars

C7_Witness ==
    /\ last.op = "clear_cache"
    /\ last.cleared.has_stats_cache /\ last.cleared.has_sleep_cache
    /\ last.cleared.cache_date \in Dates
    /\ cache_info(Self) = EmptyInfo(date_str)

\* C8: a refresh_data(D) that returns made the remote stats call and the
\* remote sleep call for D, and afterwards both kinds are cached for D.
C8_RefreshRefetches ==
    (last.op = "refresh_data" /\ last.err = "")
    => /\ Fetched(last, "stats", last.target)
       /\ Fetched(last, "sleep", last.target)
       /\ Valid("stats", last.target)
       /\ Valid("sleep", last.target)

\* C9: a key that is servable from the cache stops being so only in
\* clear_cache, update_date or refresh_data; a get for another date never
\* evicts it.
C9_NoEviction ==
    [][\A k \in Kinds, d \in Dates :
          (Valid(k, d) /\ ~Valid(k, d)')
          => last'.op \in {"clear_cache", "update_date", "refresh_data"}]_vars

\* C10: an acquisition that succeeds stores the session, and once a session
\* is stored every later operation keeps that same session and makes no
\* handshake.
C10_SessionMemoized ==
    [][/\ (last'.logins > 0 /\ last'.err \notin {"auth", "dump"})
          => client' # NoSession
       /\ client # NoSession
          => (client' = client /\ last'.logins = 0
                /\ handshakes' = handshakes)]_vars

C10_Witness ==
    /\ client # NoSession
    /\ last.op \in GetOps /\ ~last.hit /\ last.fetches # <<>>
    /\ last.logins = 0 /\ last.err = ""
    /\ handshakes = 1 /\ client = 1

\* The operations that can need the session.
FetchOps == GetOps \cup {"refresh_data"}

\* The step asks for the session: a getter that misses the cache (called
\* directly or by refresh_data) or a read of the attribute `client`.
AsksForSession ==
    \/ last'.op \in FetchOps /\ ~last'.hit
    \/ last'.op = "client"

\* A step whose operation failed while acquiring the session left the cache
\* as it was when the session was asked for: untouched by a getter, just
\* cleared by refresh_data.
CacheAsAcquired ==
    IF last'.op = "refresh_data"
    THEN /\ stats_cache' = NONE /\ sleep_cache' = NONE /\ steps_cache' = NONE
         /\ cache_date' = NoneStr /\ date_str' = date_str
    ELSE UNCHANGED <<stats_cache, sleep_cache, steps_cache, cache_date,
                     date_str>>

\* The three remote data calls of a refresh for date d, in order.
RefreshCalls(d) == << <<"stats", d>>, <<"sleep", d>>, <<"steps", d>> >>

\* C12: the cache keeps whatever the remote call returned: after a get_* that
\* returned an empty or absent payload, the next get_* for the same key is
\* served from the cache with that same payload and no remote call.
C12_EmptyResultCached ==
    [][(last.op \in GetOps /\ last.err = "" /\ FalsyPayload(last.ret)
            /\ last'.op = last.op /\ last'.target = last.target)
       => (last'.hit /\ last'.fetches = <<>> /\ last'.ret = last.ret)]_vars

\* C13: an operation that ends with an error leaves no entry it wrote: a
\* failed getter leaves every slot as it was, a failed refresh_data leaves
\* every slot empty.
C13_NoPartialState ==
    [][(last'.op \in FetchOps /\ last'.err # "")
       => \A k \in Kinds :
            IF last'.op = "refresh_data" THEN Slot(k)' = NONE
            ELSE Slot(k)' = Slot(k)]_vars

\* C14: when a credential is missing as the session is first needed, the
\* operation fails with the configuration error, no handshake and no remote
\* data call is made, no client is stored and the cache is as it was when
\* the session was asked for.
C14_MissingCredentials ==
    [][last'.nocreds
       => /\ last'.err = "config"
          /\ last'.logins = 0 /\ handshakes' = handshakes
          /\ last'.fetches = <<>>
          /\ client' = NoSession
          /\ CacheAsAcquired]_vars

C14_Witness ==
    /\ last.nocreds /\ last.err = "config" /\ last.op = "get_stats"
    /\ client = NoSession /\ last.logins = 0 /\ last.fetches = <<>>

\* C15: a failed handshake is tried once, ends the operation with its error,
\* stores no client and writes no cache entry, and the next operation that
\* needs the session (with credentials) makes a handshake again.
C15_AuthFailure ==
    [][/\ last'.err = "auth"
          => /\ last'.logins = 1 /\ handshakes' = handshakes
             /\ last'.fetches = <<>>
             /\ client' = NoSession
             /\ CacheAsAcquired
       /\ (last.err = "auth" /\ AsksForSession /\ ~last'.nocreds)
          => last'.logins = 1]_vars

C15_Witness ==
    /\ last.err = "auth" /\ last.logins = 1 /\ last.op = "get_sleep_data"
    /\ client = NoSession /\ last.fetches = <<>>

\* C16 as stated: a refresh_data that returns made exactly two remote data
\* calls, the stats call and the sleep call for the resolved date.
C16_RefreshTwoCalls ==
    (last.op = "refresh_data" /\ last.err = "")
    => last.fetches = SubSeq(RefreshCalls(last.target), 1, 2)

\* C16 amended: a refresh_data that returns made exactly three remote data
\* calls, stats, sleep and steps for the resolved date in that order; one
\* that fails made the calls up to the failing one and no other.
C16_RefreshThreeCalls ==
    last.op = "refresh_data"
    => /\ Len(last.fetches) <= 3
       /\ last.fetches
            = SubSeq(RefreshCalls(last.target), 1, Len(last.fetches))
       /\ last.err = "" => Len(last.fetches) = 3
       /\ last.err = "fetch" => Len(last.fetches) >= 1
       /\ last.err \in {"config", "auth", "dump"} => last.fetches = <<>>

C16_Witness ==
    /\ last.op = "refresh_data" /\ last.err = ""
    /\ last.cleared.has_stats_cache /\ last.cleared.has_sleep_cache
    /\ last.cleared.cache_date = last.target
    /\ last.fetches = RefreshCalls(last.target)

\* C17 as stated: a new instance has made no handshake; a handshake is made
\* only by a getter that misses the cache (called directly or by
\* refresh_data) while no client is stored, never by clear_cache,
\* update_date, cache_info or a cache hit; and a remote data call is made
\* only with the client obtained.
C17_HandshakeOnlyInGetterMiss ==
    [][/\ last.op = "__init__" => (client = NoSession /\ handshakes = 0)
       /\ last'.logins > 0
          => /\ last'.op \in FetchOps /\ ~last'.hit
             /\ client = NoSession /\ last'.logins = 1
       /\ (last'.op \in {"clear_cache", "update_date", "cache_info"}
            \/ last'.hit)
          => /\ last'.logins = 0 /\ last'.fetches = <<>>
             /\ client' = client /\ handshakes' = handshakes
       /\ last'.fetches # <<>> => client' # NoSession]_vars

\* C17: a new instance has made no handshake; a handshake is made only
\* while no client is stored, by a getter that misses the cache (called
\* directly or by refresh_data) or by a read of the attribute `client`,
\* never by clear_cache, update_date, cache_info or a cache hit; a step that
\* asks for the session without a stored client makes the handshake
\* whenever the credentials are there, and a remote data call is made only
\* with the client obtained.
C17_LazySession ==
    [][/\ last.op = "__init__" => (client = NoSession /\ handshakes = 0)
       /\ last'.logins > 0
          => /\ AsksForSession
             /\ client = NoSession /\ last'.logins = 1
       /\ (last'.op \in {"clear_cache", "update_date", "cache_info"}
            \/ last'.hit)
          => /\ last'.logins = 0 /\ last'.fetches = <<>>
             /\ client' = client /\ handshakes' = handshakes
       /\ (client = NoSession /\ AsksForSession /\ ~last'.nocreds)
          => last'.logins = 1
       /\ last'.fetches # <<>> => client' # NoSession]_vars

C17_Witness ==
    /\ last.op = "get_stats" /\ ~last.hit /\ last.err = ""
    /\ last.logins = 1 /\ client = 1 /\ handshakes = 1
    /\ last.fetches = << <<"stats", last.target>> >>

\* C19: a client is stored exactly when login() and the dump of the token
\* both succeeded in one acquisition; when the dump fails after a successful
\* login the operation fails, no client is stored, no remote data call is
\* made and no cache entry written, and the next operation that needs the
\* session (with credentials) makes the handshake again.
C19_MemoizedIffDumped ==
    [][/\ (client = NoSession /\ client' # NoSession)
          => /\ last'.logins = 1 /\ handshakes' = handshakes + 1
             /\ last'.err \notin {"config", "auth", "dump"}
       /\ (last'.logins > 0 /\ last'.err \notin {"auth", "dump"})
          => client' # NoSession
       /\ last'.err = "dump"
          => /\ last'.logins = 1 /\ handshakes' = handshakes + 1
             /\ client' = NoSession
             /\ last'.fetches = <<>>
             /\ CacheAsAcquired
       /\ (last.err = "dump" /\ AsksForSession /\ ~last'.nocreds)
          => last'.logins = 1]_vars

C19_Witness ==
    /\ last.err = "dump" /\ last.logins = 1 /\ client = NoSession
    /\ handshakes = 2 /\ last.op \in GetOps /\ last.fetches = <<>>

\* The endpoint dependencies.
DepOps ==
    {"get_activity_data_dependency", "get_sleep_data_dependency",
     "get_garmin_data_dependency"}

\* C11: over the requests served by one process at most one login()
\* succeeds.
C11_AuthenticateOnce == handshakes <= 1

\* C18: a dependency ends either by handing a non-empty payload to the
\* handler or with status 503: every failure of the facade (credentials,
\* handshake, dump, remote call) and every empty or absent payload gives
\* 503, and no other status comes out.
C18_DependencyStatus ==
    last.op \in DepOps
    => /\ last.status \in {"", "503"}
       /\ last.status = "" <=> last.err = ""
       /\ last.status = "" => ~FalsyPayload(last.ret)
       /\ (last.nocreds \/ last.raised) => last.status = "503"
       /\ last.err \in {"config", "auth", "dump", "fetch", "invalid"}
            => last.status = "503"
       /\ (last.fetches # <<>> /\ ~last.raised /\ FalsyPayload(last.ret))
            => (last.err = "empty" /\ last.status = "503")

C18_Witness ==
    /\ last.op = "get_activity_data_dependency"
    /\ last.fetches # <<>> /\ ~last.raised
    /\ last.ret.body = "empty" /\ last.err = "empty"
    /\ last.status = "503"
====
